---- MODULE Spec2Model ----
(***************************************************************************)
(* Noise handshake core of src/box/box.go: CipherState, symmetricState and *)
(* HandshakeState, run as a session between one initiator and one          *)
(* responder over a network that may cut a message short or alter a byte,  *)
(* and the transport CipherStates that a completed handshake returns.      *)
(*                                                                         *)
(* Byte strings are symbolic: a byte string is a sequence of chunks        *)
(* <<term, from, to>>, the bytes from..to-1 of the value `term`.  Slicing  *)
(* (message[:expected], message[expected:]) is computed on the chunks, so  *)
(* a cut inside a field yields bytes that are not the field.               *)
(***************************************************************************)
EXTENDS Integers, Sequences, FiniteSets, TLC

\* ------------------------------------------------------------ constants
DHLen == 32
TagLen == 16
HashLen == 32
KeyLen == 32
MaxMsgLen == 65535
Limb == 65536

\* ------------------------------------------------------------ bounds
MaxAborts == 1
MaxOps == 3

\* ------------------------------------------------------------ byte strings
Nil == <<>>

Whole(term, len) == IF len = 0 THEN <<>> ELSE << <<term, 0, len>> >>

RECURSIVE BLen(_)
BLen(b) == IF b = <<>> THEN 0 ELSE (b[1][3] - b[1][2]) + BLen(Tail(b))

\* b[:n]
RECURSIVE Take(_, _)
Take(b, n) ==
  IF n <= 0 \/ b = <<>> THEN <<>>
  ELSE LET c == b[1]
           l == c[3] - c[2]
       IN IF l <= n THEN <<c>> \o Take(Tail(b), n - l)
          ELSE << <<c[1], c[2], c[2] + n>> >>

\* b[n:]
RECURSIVE Drop(_, _)
Drop(b, n) ==
  IF b = <<>> THEN <<>>
  ELSE IF n <= 0 THEN b
  ELSE LET c == b[1]
           l == c[3] - c[2]
       IN IF l <= n THEN Drop(Tail(b), n - l)
          ELSE << <<c[1], c[2] + n, c[3]>> >> \o Tail(b)

\* ------------------------------------------------------------ uint64
\* A uint64 is four 16-bit limbs, most significant first.
U64Zero == <<0, 0, 0, 0>>

\* n++ on a uint64: wraps to zero after 2^64 - 1
U64Inc(n) ==
  IF n[4] + 1 < Limb THEN <<n[1], n[2], n[3], n[4] + 1>>
  ELSE IF n[3] + 1 < Limb THEN <<n[1], n[2], n[3] + 1, 0>>
  ELSE IF n[2] + 1 < Limb THEN <<n[1], n[2] + 1, 0, 0>>
  ELSE IF n[1] + 1 < Limb THEN <<n[1] + 1, 0, 0, 0>>
  ELSE U64Zero

\* n + d modulo 2^64, for a small d >= 0
U64Add(n, d) ==
  LET s4 == n[4] + d
      s3 == n[3] + (s4 \div Limb)
      s2 == n[2] + (s3 \div Limb)
      s1 == n[1] + (s2 \div Limb)
  IN <<s1 % Limb, s2 % Limb, s3 % Limb, s4 % Limb>>

\* ------------------------------------------------------------ cipher suite
\* A DHKey: the public half as bytes, the private half by name ("" = unset).
NoKey == [Public |-> Nil, Private |-> ""]
Keypair(name) == [Public |-> Whole(<<"pub", name>>, DHLen), Private |-> name]

IsPublic(b) == Len(b) = 1 /\ b[1][1][1] = "pub" /\ b[1][2] = 0 /\ b[1][3] = DHLen

\* DH is commutative on well-formed public keys.
DH(privkey, pubkey) ==
  IF IsPublic(pubkey)
  THEN Whole(<<"dh", {privkey, pubkey[1][1][2]}>>, DHLen)
  ELSE Whole(<<"dhx", privkey, pubkey>>, DHLen)

Hash(h, data) == Whole(<<"hash", h, data>>, HashLen)

\* The two outputs of hkdf(chainingKey, inputKeyMaterial).
hkdf(ck, ikm) ==
  << Whole(<<"hkdf", ck, ikm, 1>>, HashLen), Whole(<<"hkdf", ck, ikm, 2>>, HashLen) >>

\* Cipher.Encrypt: ciphertext and 16-byte tag as one value.
AeadEncrypt(k, n, ad, plaintext) ==
  Whole(<<"aead", k, n, ad, plaintext>>, BLen(plaintext) + TagLen)

\* Cipher.Decrypt verifies the tag: only the whole output of AeadEncrypt under
\* the same key, nonce and ad opens.
AeadOpens(k, n, ad, ciphertext) ==
  /\ Len(ciphertext) = 1
  /\ ciphertext[1][1][1] = "aead"
  /\ ciphertext[1][2] = 0
  /\ ciphertext[1][1][2] = k
  /\ ciphertext[1][1][3] = n
  /\ ciphertext[1][1][4] = ad
  /\ ciphertext[1][3] = BLen(ciphertext[1][1][5]) + TagLen

AeadPlaintext(ciphertext) == ciphertext[1][1][5]

\* ------------------------------------------------------------ CipherState
ZeroKey == Whole(<<"zero">>, KeyLen)

NewCipherState(k) == [k |-> k, n |-> U64Zero, invalid |-> FALSE]

\* Fault: Encrypt without the check of invalid.
EncryptUnchecked(s, ad, plaintext) ==
  [s |-> [s EXCEPT !.n = U64Inc(s.n)],
   out |-> AeadEncrypt(s.k, s.n, ad, plaintext),
   panic |-> FALSE]

\* Fault: Encrypt that leaves n as it was.
EncryptNoAdvance(s, ad, plaintext) ==
  IF s.invalid
  THEN [s |-> s, out |-> Nil, panic |-> TRUE]
  ELSE [s |-> s, out |-> AeadEncrypt(s.k, s.n, ad, plaintext), panic |-> FALSE]

\* CipherState.Encrypt on a record with fields k, n, invalid.
Encrypt(s, ad, plaintext) ==
  IF s.invalid
  THEN [s |-> s, out |-> Nil, panic |-> TRUE]
  ELSE [s |-> [s EXCEPT !.n = U64Inc(s.n)],
        out |-> AeadEncrypt(s.k, s.n, ad, plaintext),
        panic |-> FALSE]

\* Fault: Decrypt that advances n only when the tag verifies.
DecryptNoAdvance(s, ad, ciphertext) ==
  IF s.invalid
  THEN [s |-> s, out |-> Nil, err |-> "panic"]
  ELSE IF AeadOpens(s.k, s.n, ad, ciphertext)
  THEN [s |-> [s EXCEPT !.n = U64Inc(s.n)], out |-> AeadPlaintext(ciphertext), err |-> "nil"]
  ELSE [s |-> s, out |-> Nil, err |-> "ErrAuth"]

\* CipherState.Decrypt
Decrypt(s, ad, ciphertext) ==
  IF s.invalid
  THEN [s |-> s, out |-> Nil, err |-> "panic"]
  ELSE IF AeadOpens(s.k, s.n, ad, ciphertext)
  THEN [s |-> [s EXCEPT !.n = U64Inc(s.n)], out |-> AeadPlaintext(ciphertext), err |-> "nil"]
  ELSE [s |-> [s EXCEPT !.n = U64Inc(s.n)], out |-> Nil, err |-> "ErrAuth"]

\* CipherState.Cipher
Cipher(s) == [s EXCEPT !.invalid = TRUE]

\* ------------------------------------------------------------ symmetricState
\* A symmetricState is a CipherState (k, n, invalid) plus hasK, hasPSK, ck, h.
EmptySymmetric ==
  [k |-> ZeroKey, n |-> U64Zero, invalid |-> FALSE,
   hasK |-> FALSE, hasPSK |-> FALSE, ck |-> Nil, h |-> Nil]

InitializeSymmetric(ss, handshakeName) ==
  LET h == IF BLen(handshakeName) <= HashLen
           THEN handshakeName \o Whole(<<"zero">>, HashLen - BLen(handshakeName))
           ELSE Hash(Nil, handshakeName)
  IN [ss EXCEPT !.h = h, !.ck = h]

MixKey(ss, dhOutput) ==
  LET o == hkdf(ss.ck, dhOutput)
  IN [ss EXCEPT !.n = U64Zero, !.hasK = TRUE, !.ck = o[1], !.k = Take(o[2], KeyLen)]

MixHash(ss, data) == [ss EXCEPT !.h = Hash(ss.h, data)]

MixPresharedKey(ss, presharedKey) ==
  LET o == hkdf(ss.ck, presharedKey)
  IN [MixHash([ss EXCEPT !.ck = o[1]], o[2]) EXCEPT !.hasPSK = TRUE]

\* EncryptAndHash once a key is set; r is what s.Encrypt(out, s.h, plaintext) returned.
EncryptAndHashKeyed(ss, out, r) ==
  IF r.panic THEN [ss |-> ss, out |-> out, panic |-> TRUE]
  ELSE [ss |-> MixHash(r.s, r.out), out |-> out \o r.out, panic |-> FALSE]

\* Fault: EncryptAndHash that never encrypts.
EncryptAndHashClear(ss, out, plaintext) ==
  [ss |-> MixHash(ss, plaintext), out |-> out \o plaintext, panic |-> FALSE]

EncryptAndHash(ss, out, plaintext) ==
  IF ~ss.hasK
  THEN [ss |-> MixHash(ss, plaintext), out |-> out \o plaintext, panic |-> FALSE]
  ELSE EncryptAndHashKeyed(ss, out, Encrypt(ss, ss.h, plaintext))

\* Fault: DecryptAndHash that mixes the recovered plaintext, not the bytes received.
DecryptAndHashKeyedPlain(out, data, r) ==
  IF r.err # "nil" THEN [ss |-> r.s, out |-> Nil, err |-> r.err]
  ELSE [ss |-> MixHash(r.s, r.out), out |-> out \o r.out, err |-> "nil"]

\* DecryptAndHash once a key is set; r is what s.Decrypt(out, s.h, data) returned.
DecryptAndHashKeyed(out, data, r) ==
  IF r.err # "nil" THEN [ss |-> r.s, out |-> Nil, err |-> r.err]
  ELSE [ss |-> MixHash(r.s, data), out |-> out \o r.out, err |-> "nil"]

\* Fault: DecryptAndHash that takes every field as written in the clear.
DecryptAndHashClear(ss, out, data) ==
  [ss |-> MixHash(ss, data), out |-> out \o data, err |-> "nil"]

DecryptAndHash(ss, out, data) ==
  IF ~ss.hasK
  THEN [ss |-> MixHash(ss, data), out |-> out \o data, err |-> "nil"]
  ELSE DecryptAndHashKeyed(out, data, Decrypt(ss, ss.h, data))

\* Fault: Split that makes the two CipherStates as copies of the one embedded in
\* the symmetric state.
SplitCopied(ss) ==
  LET o == hkdf(ss.ck, Nil)
  IN << [k |-> Take(o[1], KeyLen), n |-> ss.n, invalid |-> ss.invalid],
        [k |-> Take(o[2], KeyLen), n |-> ss.n, invalid |-> ss.invalid] >>

Split(ss) ==
  LET o == hkdf(ss.ck, Nil)
  IN << NewCipherState(Take(o[1], KeyLen)), NewCipherState(Take(o[2], KeyLen)) >>

\* ------------------------------------------------------------ patterns
\* MessagePattern tokens
MessagePatternS == "S"
MessagePatternE == "E"
MessagePatternDHEE == "DHEE"
MessagePatternDHES == "DHES"
MessagePatternDHSE == "DHSE"
MessagePatternDHSS == "DHSS"

\* HandshakePattern values handed in through Config.Pattern.  A DH token
\* names the writer's private key first and the reader's public key second.
HandshakeNN ==
  [Name |-> "NN", InitiatorPreMessages |-> <<>>, ResponderPreMessages |-> <<>>,
   Messages |-> << <<"E">>, <<"E", "DHEE">> >>]

HandshakeXX ==
  [Name |-> "XX", InitiatorPreMessages |-> <<>>, ResponderPreMessages |-> <<>>,
   Messages |-> << <<"E">>, <<"E", "DHEE", "S", "DHSE">>, <<"S", "DHSE">> >>]

HandshakeIK ==
  [Name |-> "IK", InitiatorPreMessages |-> <<>>, ResponderPreMessages |-> <<"S">>,
   Messages |-> << <<"E", "DHES", "S", "DHSS">>, <<"E", "DHEE", "DHES">> >>]

Patterns == {HandshakeNN, HandshakeXX, HandshakeIK}

SuiteNameLen == 23

\* []byte(namePrefix + c.Pattern.Name + "_" + string(hs.ss.cs.Name()))
HandshakeName(psk, pattern) ==
  Whole(<<"name", psk, pattern.Name>>,
        (IF psk THEN 9 ELSE 6) + Len(pattern.Name) + 1 + SuiteNameLen)

\* ------------------------------------------------------------ HandshakeState
RECURSIVE PreMessages(_, _, _)
\* One pre-message list: `own` says whether the list is this peer's own.
PreMessages(hs, toks, own) ==
  IF toks = <<>> THEN hs
  ELSE LET m == toks[1]
           data == IF own /\ m = MessagePatternS THEN hs.s.Public
                   ELSE IF own /\ m = MessagePatternE THEN hs.e.Public
                   ELSE IF m = MessagePatternS THEN hs.rs
                   ELSE hs.re
       IN PreMessages([hs EXCEPT !.ss = MixHash(hs.ss, data)], Tail(toks), own)

\* Fault: NewHandshakeState that leaves the prologue out of h.
InitialSymmetricNoPrologue(c) ==
  IF BLen(c.PresharedKey) > 0
  THEN MixPresharedKey(InitializeSymmetric(EmptySymmetric, HandshakeName(TRUE, c.Pattern)),
                       c.PresharedKey)
  ELSE InitializeSymmetric(EmptySymmetric, HandshakeName(FALSE, c.Pattern))

\* The symmetric state NewHandshakeState builds before the pre-messages.
InitialSymmetric(c) ==
  IF BLen(c.PresharedKey) > 0
  THEN MixPresharedKey(
         MixHash(InitializeSymmetric(EmptySymmetric, HandshakeName(TRUE, c.Pattern)), c.Prologue),
         c.PresharedKey)
  ELSE MixHash(InitializeSymmetric(EmptySymmetric, HandshakeName(FALSE, c.Pattern)), c.Prologue)

\* Fault: NewHandshakeState that takes c.PeerEphemeral as it takes c.PeerStatic,
\* without the copy.
NewHandshakeStateSharedRe(c) ==
  PreMessages(
    PreMessages([ss |-> InitialSymmetric(c),
                 s |-> c.StaticKeypair,
                 e |-> c.EphemeralKeypair,
                 rs |-> c.PeerStatic,
                 re |-> c.PeerEphemeral,
                 reShared |-> BLen(c.PeerEphemeral) > 0,
                 messagePatterns |-> c.Pattern.Messages,
                 shouldWrite |-> c.Initiator,
                 msgIdx |-> 0],
                c.Pattern.InitiatorPreMessages, c.Initiator),
    c.Pattern.ResponderPreMessages, ~c.Initiator)

\* reShared: hs.re and c.PeerEphemeral are one array, so that a write into
\* hs.re is a write into the Config.  hs.re is made by make and copy.
NewHandshakeState(c) ==
  PreMessages(
    PreMessages([ss |-> InitialSymmetric(c),
                 s |-> c.StaticKeypair,
                 e |-> c.EphemeralKeypair,
                 rs |-> c.PeerStatic,
                 re |-> c.PeerEphemeral,
                 reShared |-> FALSE,
                 messagePatterns |-> c.Pattern.Messages,
                 shouldWrite |-> c.Initiator,
                 msgIdx |-> 0],
                c.Pattern.InitiatorPreMessages, c.Initiator),
    c.Pattern.ResponderPreMessages, ~c.Initiator)

\* Fault: the exhaustion check off by one.
NoMessagesLeftOffByOne(s) == s.msgIdx > Len(s.messagePatterns)

\* s.msgIdx > len(s.messagePatterns)-1
NoMessagesLeft(s) == s.msgIdx > Len(s.messagePatterns) - 1

\* s.messagePatterns[s.msgIdx]
CurrentTokens(s) ==
  IF s.msgIdx < Len(s.messagePatterns) THEN s.messagePatterns[s.msgIdx + 1] ELSE <<>>

\* case MessagePatternE of WriteMessage; e is the generated keypair.
WriteTokenE(st, e) ==
  [hs |-> [st.hs EXCEPT !.e = e,
                        !.ss = IF st.hs.ss.hasPSK
                               THEN MixKey(MixHash(st.hs.ss, e.Public), e.Public)
                               ELSE MixHash(st.hs.ss, e.Public)],
   out |-> st.out \o e.Public, panic |-> FALSE]

\* case MessagePatternS of WriteMessage; r is what EncryptAndHash returned.
WriteTokenS(st, r) ==
  [hs |-> [st.hs EXCEPT !.ss = r.ss], out |-> r.out, panic |-> r.panic]

DHTokens == {MessagePatternDHEE, MessagePatternDHES, MessagePatternDHSE, MessagePatternDHSS}

\* What WriteMessage on s hands to MixKey for a DH token.
WriterDH(s, msg) ==
  CASE msg = MessagePatternDHEE -> DH(s.e.Private, s.re)
    [] msg = MessagePatternDHES -> DH(s.e.Private, s.rs)
    [] msg = MessagePatternDHSE -> DH(s.s.Private, s.re)
    [] msg = MessagePatternDHSS -> DH(s.s.Private, s.rs)

\* One token of WriteMessage's loop; st = [hs, out, panic].
WriteToken(st, msg, eph) ==
  CASE msg = MessagePatternE -> WriteTokenE(st, Keypair(eph))
    [] msg = MessagePatternS ->
         IF BLen(st.hs.s.Public) = 0 THEN [st EXCEPT !.panic = TRUE]
         ELSE WriteTokenS(st, EncryptAndHash(st.hs.ss, st.out, st.hs.s.Public))
    [] msg \in DHTokens ->
         [st EXCEPT !.hs.ss = MixKey(st.hs.ss, WriterDH(st.hs, msg))]

RECURSIVE WriteTokens(_, _, _)
WriteTokens(st, toks, eph) ==
  IF toks = <<>> \/ st.panic THEN st
  ELSE WriteTokens(WriteToken(st, toks[1], eph), Tail(toks), eph)

\* Fault: WriteMessage without the check of shouldWrite.
WriteAllowedAnyTurn(s) == ~NoMessagesLeft(s)

\* The turn and exhaustion checks that open WriteMessage.
WriteAllowed(s) == s.shouldWrite /\ ~NoMessagesLeft(s)

\* The payload length check of WriteMessage.
PayloadTooLong(payload) == BLen(payload) > MaxMsgLen

\* Fault: the writer hands back the split pair in the other order.
WriteReturnSwapped(s1, r) ==
  IF r.panic THEN [hs |-> s1, out |-> Nil, cs |-> <<>>, status |-> "panic"]
  ELSE [hs |-> [s1 EXCEPT !.ss = r.ss], out |-> r.out,
        cs |-> IF s1.msgIdx >= Len(s1.messagePatterns)
               THEN <<Split(r.ss)[2], Split(r.ss)[1]>> ELSE <<>>,
        status |-> "ok"]

\* The end of WriteMessage: s1 is the state with the turn passed on, r what
\* EncryptAndHash(out, payload) returned.
WriteReturn(s1, r) ==
  IF r.panic THEN [hs |-> s1, out |-> Nil, cs |-> <<>>, status |-> "panic"]
  ELSE [hs |-> [s1 EXCEPT !.ss = r.ss], out |-> r.out,
        cs |-> IF s1.msgIdx >= Len(s1.messagePatterns) THEN Split(r.ss) ELSE <<>>,
        status |-> "ok"]

\* WriteMessage after the token loop has left st.
WritePayload(st, payload) ==
  IF st.panic THEN [hs |-> st.hs, out |-> Nil, cs |-> <<>>, status |-> "panic"]
  ELSE WriteReturn([st.hs EXCEPT !.shouldWrite = FALSE, !.msgIdx = @ + 1],
                   EncryptAndHash(st.hs.ss, st.out, payload))

\* HandshakeState.WriteMessage(nil, payload); eph names the key the rng yields.
WriteMessage(s, payload, eph) ==
  IF ~WriteAllowed(s) \/ PayloadTooLong(payload)
  THEN [hs |-> s, out |-> Nil, cs |-> <<>>, status |-> "panic"]
  ELSE WritePayload(WriteTokens([hs |-> s, out |-> Nil, panic |-> FALSE],
                                CurrentTokens(s), eph),
                    payload)

\* The turn and exhaustion checks that open ReadMessage.
ReadAllowed(s) == ~s.shouldWrite /\ ~NoMessagesLeft(s)

\* case MessagePatternE of ReadMessage; re is message[:DHLen].  The bytes are
\* copied into the array of s.re, or into a new one when that is too small (a
\* slice's capacity is its length here).
ReadTokenE(st, re) ==
  [hs |-> [st.hs EXCEPT !.re = re,
                        !.reShared = IF BLen(st.hs.re) < DHLen THEN FALSE ELSE @,
                        !.ss = IF st.hs.ss.hasPSK
                               THEN MixKey(MixHash(st.hs.ss, re), re)
                               ELSE MixHash(st.hs.ss, re)],
   message |-> Drop(st.message, DHLen), err |-> "nil"]

\* case MessagePatternS of ReadMessage; r is what DecryptAndHash returned.
ReadTokenS(st, expected, r) ==
  [hs |-> [st.hs EXCEPT !.rs = r.out, !.ss = r.ss],
   message |-> IF r.err # "nil" THEN st.message ELSE Drop(st.message, expected),
   err |-> r.err]

\* The bytes token msg takes from the message.
Expected(s, msg) ==
  DHLen + (IF msg = MessagePatternS /\ s.ss.hasK THEN TagLen ELSE 0)

\* Fault: the length check lets a message one byte short through.
TooShortOffByOne(st, msg) == BLen(st.message) < Expected(st.hs, msg) - 1

\* len(message) < expected
TooShort(st, msg) == BLen(st.message) < Expected(st.hs, msg)

\* Fault: ReadMessage that pairs the keys of a DH token as WriteMessage does.
ReaderDHAsWriter(s, msg) ==
  CASE msg = MessagePatternDHEE -> DH(s.e.Private, s.re)
    [] msg = MessagePatternDHES -> DH(s.e.Private, s.rs)
    [] msg = MessagePatternDHSE -> DH(s.s.Private, s.re)
    [] msg = MessagePatternDHSS -> DH(s.s.Private, s.rs)

\* What ReadMessage on s hands to MixKey for a DH token.
ReaderDH(s, msg) ==
  CASE msg = MessagePatternDHEE -> DH(s.e.Private, s.re)
    [] msg = MessagePatternDHES -> DH(s.s.Private, s.re)
    [] msg = MessagePatternDHSE -> DH(s.e.Private, s.rs)
    [] msg = MessagePatternDHSS -> DH(s.s.Private, s.rs)

\* One token of ReadMessage's loop; st = [hs, message, err].
ReadToken(st, msg) ==
  CASE msg \in {MessagePatternE, MessagePatternS} ->
         IF TooShort(st, msg) THEN [st EXCEPT !.err = "ErrShortMessage"]
         ELSE IF msg = MessagePatternE THEN ReadTokenE(st, Take(st.message, DHLen))
         ELSE IF BLen(st.hs.rs) > 0 THEN [st EXCEPT !.err = "panic"]
         ELSE ReadTokenS(st, Expected(st.hs, msg),
                         DecryptAndHash(st.hs.ss, Nil, Take(st.message, Expected(st.hs, msg))))
    [] msg \in DHTokens ->
         [st EXCEPT !.hs.ss = MixKey(st.hs.ss, ReaderDH(st.hs, msg))]

RECURSIVE ReadTokens(_, _)
ReadTokens(st, toks) ==
  IF toks = <<>> \/ st.err # "nil" THEN st
  ELSE ReadTokens(ReadToken(st, toks[1]), Tail(toks))

\* Fault: ReadMessage that splits on the last message whatever the payload did.
ReadReturnDespiteError(s1, r) ==
  [hs |-> [s1 EXCEPT !.ss = r.ss], out |-> IF r.err # "nil" THEN Nil ELSE r.out,
   cs |-> IF s1.msgIdx >= Len(s1.messagePatterns) THEN Split(r.ss) ELSE <<>>,
   err |-> r.err]

\* The end of ReadMessage: s1 is the state with the turn taken, r what
\* DecryptAndHash(out, message) returned.
ReadReturn(s1, r) ==
  IF r.err # "nil" THEN [hs |-> [s1 EXCEPT !.ss = r.ss], out |-> Nil, cs |-> <<>>, err |-> r.err]
  ELSE [hs |-> [s1 EXCEPT !.ss = r.ss], out |-> r.out,
        cs |-> IF s1.msgIdx >= Len(s1.messagePatterns) THEN Split(r.ss) ELSE <<>>,
        err |-> "nil"]

\* Fault: ReadMessage that never takes the turn.
ReadPayloadNoFlip(st) ==
  IF st.err # "nil" THEN [hs |-> st.hs, out |-> Nil, cs |-> <<>>, err |-> st.err]
  ELSE ReadReturn([st.hs EXCEPT !.msgIdx = @ + 1], DecryptAndHash(st.hs.ss, Nil, st.message))

\* ReadMessage after the token loop has left st.
ReadPayload(st) ==
  IF st.err # "nil" THEN [hs |-> st.hs, out |-> Nil, cs |-> <<>>, err |-> st.err]
  ELSE ReadReturn([st.hs EXCEPT !.shouldWrite = TRUE, !.msgIdx = @ + 1],
                  DecryptAndHash(st.hs.ss, Nil, st.message))

\* HandshakeState.ReadMessage(nil, message)
ReadMessage(s, message) ==
  IF ~ReadAllowed(s)
  THEN [hs |-> s, out |-> Nil, cs |-> <<>>, err |-> "panic"]
  ELSE ReadPayload(ReadTokens([hs |-> s, message |-> message, err |-> "nil"], CurrentTokens(s)))

\* ------------------------------------------------------------ session
Peers == {"i", "r"}
Other(p) == IF p = "i" THEN "r" ELSE "i"

\* Test fixtures: static keys, prologues, preshared key, payloads, rng outputs.
StaticOf(p) == Keypair(IF p = "i" THEN "si" ELSE "sr")
Prologues == {Nil, Whole(<<"prologue", "abc">>, 3)}
PresharedKeys == {Nil, Whole(<<"psk", "k">>, 32)}
Payloads == {Nil, Whole(<<"pay", "max">>, MaxMsgLen), Whole(<<"pay", "big">>, MaxMsgLen + 1)}
Ephemerals == {"e1", "e2"}

UsesStatic(pattern) == pattern.Name # "NN"

\* A peer ephemeral key left in the responder's Config by an earlier use.
StaleEphemeral == Keypair("e0").Public

\* The Config of peer p for a pattern: keys the pattern needs, the static
\* keys announced by pre-messages preconfigured on the other side.
ConfigOf(p, pattern, psk, prologue) ==
  [Pattern |-> pattern,
   Initiator |-> (p = "i"),
   Prologue |-> prologue,
   PresharedKey |-> psk,
   StaticKeypair |-> IF UsesStatic(pattern) THEN StaticOf(p) ELSE NoKey,
   EphemeralKeypair |-> NoKey,
   PeerStatic |-> IF p = "i" /\ pattern.ResponderPreMessages = <<"S">> THEN StaticOf("r").Public
                  ELSE IF p = "r" /\ pattern.InitiatorPreMessages = <<"S">> THEN StaticOf("i").Public
                  ELSE Nil,
   PeerEphemeral |-> IF p = "r" THEN StaleEphemeral ELSE Nil]

VARIABLES
  cfg,      \* the Config each peer was constructed from
  hs,       \* each peer's HandshakeState
  wire,     \* the handshake message in flight
  ret,      \* what the last WriteMessage/ReadMessage call returned, and to whom
  css,      \* the CipherStates each peer has been handed
  splits,   \* how many times each peer's symmetric state was Split
  ncalls,   \* calls made so far in the session
  aborts,   \* how many of them aborted
  clean,    \* every message so far was delivered as written
  tcs,      \* transport CipherStates
  tcalls,   \* Encrypt/Decrypt calls made on each transport CipherState
  tn0,      \* n of each transport CipherState at the start
  tret,     \* what the last transport call returned
  chan      \* transport ciphertexts in flight

hvars == <<cfg, hs, wire, ret, css, splits, ncalls, aborts, clean>>
tvars == <<tcs, tcalls, tn0, tret, chan>>
vars == <<cfg, hs, wire, ret, css, splits, ncalls, aborts, clean, tcs, tcalls, tn0, tret, chan>>

\* msg: the bytes on the wire; sent: the bytes as written; payload: the payload written.
NoWire == [full |-> FALSE, to |-> "", msg |-> Nil, sent |-> Nil, payload |-> Nil]
NoRet == [peer |-> "", op |-> "", status |-> "", out |-> Nil, cs |-> <<>>, n |-> 0,
          msg |-> Nil, sent |-> Nil, payload |-> Nil]

InitSession ==
  /\ \E pattern \in Patterns, psk \in PresharedKeys, pi \in Prologues, pr \in Prologues :
       cfg = [p \in Peers |-> ConfigOf(p, pattern, psk, IF p = "i" THEN pi ELSE pr)]
  /\ hs = [p \in Peers |-> NewHandshakeState(cfg[p])]
  /\ wire = NoWire
  /\ ret = NoRet
  /\ css = [p \in Peers |-> <<>>]
  /\ splits = [p \in Peers |-> 0]
  /\ ncalls = 0
  /\ aborts = 0
  /\ clean = TRUE

\* The bytes of Config c once a call has left the HandshakeState made from it
\* as s1: an array that s1.re shares with c holds what s1.re holds.
SharedWrites(c, s1) == IF s1.reShared THEN [c EXCEPT !.PeerEphemeral = s1.re] ELSE c

\* What a call that returned r leaves with the caller p; w is the message the
\* call was about.
Returned(p, op, status, r, w) ==
  /\ hs' = [hs EXCEPT ![p] = r.hs]
  /\ cfg' = [cfg EXCEPT ![p] = SharedWrites(cfg[p], r.hs)]
  /\ ret' = [peer |-> p, op |-> op, status |-> status, out |-> r.out, cs |-> r.cs,
             n |-> ncalls + 1, msg |-> w.msg, sent |-> w.sent, payload |-> w.payload]
  /\ css' = IF r.cs # <<>> THEN [css EXCEPT ![p] = r.cs] ELSE css
  /\ splits' = IF r.cs # <<>> THEN [splits EXCEPT ![p] = @ + 1] ELSE splits
  /\ status = "panic" => aborts < MaxAborts
  /\ aborts' = IF status = "panic" THEN aborts + 1 ELSE aborts
  /\ ncalls' = ncalls + 1

Wrote(p, payload, r) ==
  /\ Returned(p, "WriteMessage", r.status, r, [msg |-> Nil, sent |-> r.out, payload |-> payload])
  /\ wire' = IF r.status = "ok"
             THEN [full |-> TRUE, to |-> Other(p), msg |-> r.out, sent |-> r.out,
                   payload |-> payload]
             ELSE wire
  /\ UNCHANGED clean

\* Peer p calls WriteMessage(nil, payload) and sends what it returns.
CallWrite(p, payload, eph) == Wrote(p, payload, WriteMessage(hs[p], payload, eph))

HasMail(p) == wire.full /\ wire.to = p

DidRead(p, r) ==
  /\ Returned(p, "ReadMessage", r.err, r, IF HasMail(p) THEN wire ELSE NoWire)
  /\ wire' = IF HasMail(p) /\ r.err # "panic" THEN NoWire ELSE wire
  /\ UNCHANGED clean

\* Peer p calls ReadMessage(nil, message) on the message in flight to it; a
\* call out of turn or on a spent state may come at any time.
CallRead(p) ==
  /\ HasMail(p) \/ ~ReadAllowed(hs[p])
  /\ DidRead(p, ReadMessage(hs[p], IF HasMail(p) THEN wire.msg ELSE Nil))

\* The lengths the network may cut a message to: one byte short, or inside
\* the field that follows a first ephemeral key.
CutLens(msg) == {l \in {BLen(msg) - 1, DHLen + 8} : l >= 0 /\ l < BLen(msg)}

\* The network delivers only the first l bytes of the message in flight.
Truncate ==
  /\ wire.full /\ wire.msg = wire.sent
  /\ \E l \in CutLens(wire.msg) : wire' = [wire EXCEPT !.msg = Take(wire.msg, l)]
  /\ clean' = FALSE
  /\ UNCHANGED <<cfg, hs, ret, css, splits, ncalls, aborts>>

\* The positions at which the network may alter a byte: the first, one inside
\* the field that follows a first ephemeral key, the last.
AlterAts(msg) == {i \in {0, DHLen + 8, BLen(msg) - 1} : i >= 0 /\ i < BLen(msg)}

\* b with the byte at position i replaced by another.
Alter(b, i) == Take(b, i) \o Whole(<<"junk">>, 1) \o Drop(b, i + 1)

\* The network alters one byte of the message in flight.
Tamper ==
  /\ wire.full /\ wire.msg = wire.sent
  /\ \E i \in AlterAts(wire.msg) : wire' = [wire EXCEPT !.msg = Alter(wire.msg, i)]
  /\ clean' = FALSE
  /\ UNCHANGED <<cfg, hs, ret, css, splits, ncalls, aborts>>

Write == \E p \in Peers, payload \in Payloads, eph \in Ephemerals : CallWrite(p, payload, eph)
Read == \E p \in Peers : CallRead(p)

\* ------------------------------------------------------------ transport
\* The handshake NN run to its end with empty payloads and no interference:
\* the initiator writes (w1), the responder reads (r1) and writes (w2), the
\* initiator reads (r2).
RunNN4(c, w2, r2) ==
  [cfg |-> c, hs |-> [p \in Peers |-> IF p = "i" THEN r2.hs ELSE w2.hs],
   css |-> [p \in Peers |-> IF p = "i" THEN r2.cs ELSE w2.cs],
   ret |-> [peer |-> "i", op |-> "ReadMessage", status |-> r2.err,
            out |-> r2.out, cs |-> r2.cs, n |-> 4,
            msg |-> w2.out, sent |-> w2.out, payload |-> Nil]]
RunNN3(c, w1, w2) == RunNN4(c, w2, ReadMessage(w1.hs, w2.out))
RunNN2(c, w1, r1) == RunNN3(c, w1, WriteMessage(r1.hs, Nil, "e2"))
RunNN1(c, w1) == RunNN2(c, w1, ReadMessage(NewHandshakeState(c["r"]), w1.out))
RunNN(c) == RunNN1(c, WriteMessage(NewHandshakeState(c["i"]), Nil, "e1"))
DoneNN == RunNN([p \in Peers |-> ConfigOf(p, HandshakeNN, Nil, Nil)])

\* The transport CipherStates: the initiator's pair and the responder's first.
CSIds == {"i1", "i2", "r1"}
SplitOf(c) == IF c = "i1" THEN DoneNN.css["i"][1]
              ELSE IF c = "i2" THEN DoneNN.css["i"][2]
              ELSE DoneNN.css["r"][1]

\* n of a CipherState that has served no call yet, or 2^64 - 2 calls.
StartNonces == {U64Zero, <<Limb - 1, Limb - 1, Limb - 1, Limb - 2>>}
Ads == {Nil, Whole(<<"ad", "x">>, 1)}
Plaintexts == {Whole(<<"pt", "max">>, MaxMsgLen), Whole(<<"pt", "big">>, MaxMsgLen + 1)}
Junk == Whole(<<"junk">>, 20)

\* seq: the calls the CipherState had served before this one; ad, arg: the ad
\* and the plaintext or ciphertext the call was given; from: the message in
\* flight (0 = none of them) a Decrypt call was given.
NoTRet == [cs |-> "", op |-> "", status |-> "", out |-> Nil, n |-> 0,
           seq |-> 0, ad |-> Nil, arg |-> Nil, from |-> 0]

InitTransport ==
  /\ tn0 \in StartNonces
  /\ tcs = [c \in CSIds |-> [SplitOf(c) EXCEPT !.n = tn0]]
  /\ tcalls = [c \in CSIds |-> 0]
  /\ tret = NoTRet
  /\ chan = <<>>

\* A message in flight: the ciphertext, and how it was made.
Sent(c, ad, plaintext, r) ==
  [out |-> r.out, cs |-> c, seq |-> tcalls[c], ad |-> ad, plaintext |-> plaintext]

Encrypted(c, ad, plaintext, r) ==
  /\ tcs' = [tcs EXCEPT ![c] = r.s]
  /\ tret' = [cs |-> c, op |-> "Encrypt", status |-> IF r.panic THEN "panic" ELSE "nil",
              out |-> r.out, n |-> tret.n + 1, seq |-> tcalls[c], ad |-> ad,
              arg |-> plaintext, from |-> 0]
  /\ chan' = IF r.panic THEN chan ELSE Append(chan, Sent(c, ad, plaintext, r))
  /\ tcalls' = IF tcs[c].invalid THEN tcalls ELSE [tcalls EXCEPT ![c] = @ + 1]
  /\ UNCHANGED tn0

\* The owner of CipherState c calls c.Encrypt(nil, ad, plaintext) and sends the result.
CallEncrypt(c, ad, plaintext) ==
  /\ tret.n < MaxOps
  /\ Encrypted(c, ad, plaintext, Encrypt(tcs[c], ad, plaintext))

Decrypted(c, ad, i, ciphertext, r) ==
  /\ tcs' = [tcs EXCEPT ![c] = r.s]
  /\ tret' = [cs |-> c, op |-> "Decrypt", status |-> r.err, out |-> r.out, n |-> tret.n + 1,
              seq |-> tcalls[c], ad |-> ad, arg |-> ciphertext, from |-> i]
  /\ tcalls' = IF tcs[c].invalid THEN tcalls ELSE [tcalls EXCEPT ![c] = @ + 1]
  /\ UNCHANGED <<tn0, chan>>

\* The owner of CipherState c calls c.Decrypt(nil, ad, ciphertext) on message
\* i in flight, or on bytes that are no ciphertext (i = 0).
CallDecrypt(c, ad, i) ==
  /\ tret.n < MaxOps
  /\ Decrypted(c, ad, i, IF i = 0 THEN Junk ELSE chan[i].out,
               Decrypt(tcs[c], ad, IF i = 0 THEN Junk ELSE chan[i].out))

\* The owner of CipherState c calls c.Cipher().
CallCipher(c) ==
  /\ tret.n < MaxOps
  /\ tcs' = [tcs EXCEPT ![c] = Cipher(tcs[c])]
  /\ tret' = [cs |-> c, op |-> "Cipher", status |-> "nil", out |-> Nil, n |-> tret.n + 1,
              seq |-> tcalls[c], ad |-> Nil, arg |-> Nil, from |-> 0]
  /\ UNCHANGED <<tn0, tcalls, chan>>

EncryptStep == \E c \in CSIds, ad \in Ads, pt \in Plaintexts : CallEncrypt(c, ad, pt)
DecryptStep == \E c \in CSIds, ad \in Ads, i \in 0..Len(chan) : CallDecrypt(c, ad, i)
CipherStep == \E c \in CSIds : CallCipher(c)

\* ------------------------------------------------------------ specifications
\* The handshake session; no transport CipherState is in use.
Init ==
  /\ InitSession
  /\ tcs = <<>> /\ tcalls = <<>> /\ tn0 = U64Zero /\ tret = NoTRet /\ chan = <<>>

Next ==
  \/ Write /\ UNCHANGED tvars
  \/ Read /\ UNCHANGED tvars
  \/ Truncate /\ UNCHANGED tvars
  \/ Tamper /\ UNCHANGED tvars

Spec == Init /\ [][Next]_vars

\* Transport after the handshake NN has completed.
InitCS ==
  /\ cfg = DoneNN.cfg /\ hs = DoneNN.hs /\ css = DoneNN.css /\ ret = DoneNN.ret
  /\ wire = NoWire /\ splits = [p \in Peers |-> 1] /\ ncalls = 4 /\ aborts = 0 /\ clean = TRUE
  /\ InitTransport

NextCS ==
  \/ EncryptStep /\ UNCHANGED hvars
  \/ DecryptStep /\ UNCHANGED hvars
  \/ CipherStep /\ UNCHANGED hvars

SpecCS == InitCS /\ [][NextCS]_vars

\* ------------------------------------------------------------ properties
\* The two Configs agree on everything but the role.
Matching == cfg["i"].Prologue = cfg["r"].Prologue

\* (h, ck, k, n, hasK) of peer p
Sym(p) == <<hs[p].ss.h, hs[p].ss.ck, hs[p].ss.k, hs[p].ss.n, hs[p].ss.hasK>>

Completed(p) == css[p] # <<>>

\* The step is a call by peer p.
CallBy(p) == ret'.n # ret.n /\ ret'.peer = p

\* C1: with consistent configs and every message delivered as written, no
\* ReadMessage fails, the peers hold the same (h, ck, k, n, hasK) whenever no
\* message is in flight, the handshake completes for both on the same message,
\* and both get the same pair of keys, whose two keys differ.
C1_PeersAgree ==
  (clean /\ Matching) =>
    /\ ret.op = "ReadMessage" => ret.status \in {"nil", "panic"}
    /\ ~wire.full => Sym("i") = Sym("r")
    /\ ~wire.full => (Completed("i") <=> Completed("r"))
    /\ wire.full => ~Completed(wire.to)
    /\ (Completed("i") /\ Completed("r")) =>
         /\ css["i"][1].k = css["r"][1].k
         /\ css["i"][2].k = css["r"][2].k
         /\ css["i"][1].k # css["i"][2].k

C1_Witness ==
  /\ clean /\ Matching /\ Completed("i") /\ Completed("r")
  /\ cfg["i"].Pattern.Name = "XX" /\ ret.op = "ReadMessage" /\ ret.status = "nil"

\* C2 as claimed: the pairs handed to the two peers are swapped.
C2_Swapped ==
  (clean /\ Matching /\ Completed("i") /\ Completed("r")) =>
    /\ css["i"][1].k = css["r"][2].k
    /\ css["i"][2].k = css["r"][1].k

\* C2 as amended: both peers are handed the pair in the order Split derived it,
\* the initiator's first key is the responder's first key and not its second.
C2_SameOrder ==
  (clean /\ Matching /\ Completed("i") /\ Completed("r")) =>
    /\ css["i"] = css["r"]
    /\ css["i"][1].k # css["r"][2].k
    /\ css["i"][2].k # css["r"][1].k

C2_Witness ==
  /\ clean /\ Matching /\ Completed("i") /\ Completed("r")
  /\ cfg["i"].Pattern.Name = "IK" /\ ret.peer = "i" /\ ret.cs # <<>>

\* C3 as claimed (its last clause): the two flags are opposite in every state.
C3_AlwaysOpposite == hs["i"].shouldWrite # hs["r"].shouldWrite

\* C3 as amended: shouldWrite starts as Config.Initiator, is false after a
\* WriteMessage that returned and true after a ReadMessage that returned no
\* error; the flags are never both true, both false while a message is in
\* flight, and opposite when none is and the peers have processed equally many.
C3_Turns ==
  /\ ncalls = 0 => \A p \in Peers : hs[p].shouldWrite = cfg[p].Initiator
  /\ (ret.op = "WriteMessage" /\ ret.status = "ok") => ~hs[ret.peer].shouldWrite
  /\ (ret.op = "ReadMessage" /\ ret.status = "nil") => hs[ret.peer].shouldWrite
  /\ ~(hs["i"].shouldWrite /\ hs["r"].shouldWrite)
  /\ wire.full => (~hs["i"].shouldWrite /\ ~hs["r"].shouldWrite)
  /\ (~wire.full /\ hs["i"].msgIdx = hs["r"].msgIdx) =>
       hs["i"].shouldWrite # hs["r"].shouldWrite

C3_Witness ==
  /\ ret.op = "ReadMessage" /\ ret.status = "nil" /\ ret.peer = "i"
  /\ hs["i"].shouldWrite /\ ~hs["r"].shouldWrite /\ hs["i"].msgIdx = 2

\* C4: a WriteMessage call while shouldWrite is false, and a ReadMessage call
\* while it is true, aborts and leaves the HandshakeState as it was.
C4_OutOfTurnAborts ==
  [][\A p \in Peers :
       (/\ CallBy(p)
        /\ \/ ret'.op = "WriteMessage" /\ ~hs[p].shouldWrite
           \/ ret'.op = "ReadMessage" /\ hs[p].shouldWrite)
       => (ret'.status = "panic" /\ hs'[p] = hs[p])]_vars

C4_Witness ==
  /\ ret.status = "panic" /\ ret.op = "ReadMessage"
  /\ hs[ret.peer].shouldWrite /\ hs[ret.peer].ss.hasK /\ ~NoMessagesLeft(hs[ret.peer])

\* C5: once msgIdx has reached the number of messages every call aborts and
\* changes nothing; msgIdx never passes that number and Split runs at most once.
C5_SpentStaysSpent ==
  [][\A p \in Peers :
       /\ (CallBy(p) /\ hs[p].msgIdx = Len(hs[p].messagePatterns))
            => (ret'.status = "panic" /\ hs'[p] = hs[p] /\ splits'[p] = splits[p])
       /\ hs'[p].msgIdx <= Len(hs'[p].messagePatterns)
       /\ splits'[p] <= 1]_vars

C5_Witness ==
  /\ ret.status = "panic" /\ ret.op = "WriteMessage"
  /\ hs[ret.peer].shouldWrite /\ hs[ret.peer].msgIdx = Len(hs[ret.peer].messagePatterns)
  /\ splits[ret.peer] = 1

\* C6 as claimed: every message WriteMessage returns is at most MaxMsgLen bytes.
C6_MessageFits ==
  (ret.op = "WriteMessage" /\ ret.status = "ok") => BLen(ret.out) <= MaxMsgLen

\* The step is a call on transport CipherState c.
TCallOn(c) == tret'.n # tret.n /\ tret'.cs = c

\* C7: n of a CipherState is its starting value plus the number of Encrypt and
\* Decrypt calls made on it while it was valid, modulo 2^64; a Decrypt that
\* returns an authentication error counts.
C7_NonceCounts ==
  \A c \in CSIds :
    /\ tcs[c].n = U64Add(tn0, tcalls[c])
    /\ (tret.cs = c /\ tret.status = "ErrAuth") => tcalls[c] > 0 /\ tcs[c].n # tn0

C7_Witness ==
  /\ tret.op = "Decrypt" /\ tret.status = "ErrAuth"
  /\ tn0 # U64Zero /\ tcalls[tret.cs] = 2 /\ tcs[tret.cs].n = U64Zero

\* C8: invalid is set by Cipher() and never cleared; on an invalid CipherState
\* Encrypt and Decrypt abort, produce nothing and leave the CipherState as it was.
C8_InvalidLatch ==
  [][\A c \in CSIds :
       /\ tcs[c].invalid => tcs'[c].invalid
       /\ (TCallOn(c) /\ tret'.op = "Cipher") => tcs'[c].invalid
       /\ (TCallOn(c) /\ tret'.op \in {"Encrypt", "Decrypt"} /\ tcs[c].invalid)
            => (tret'.status = "panic" /\ tret'.out = Nil /\ tcs'[c] = tcs[c] /\ chan' = chan)]_vars

C8_Witness ==
  /\ tret.op = "Encrypt" /\ tret.status = "panic"
  /\ tcs[tret.cs].invalid /\ tcalls[tret.cs] > 0

\* The last call was a ReadMessage, in turn, of a message in flight.
ReadOf == ret.op = "ReadMessage" /\ ret.status # "panic" /\ BLen(ret.sent) > 0

\* ... of the message as written but for its last byte.
ReadCutLast == ReadOf /\ ret.msg = Take(ret.sent, BLen(ret.sent) - 1)

\* C9 as claimed: a message short of its last byte makes ReadMessage return
\* ErrShortMessage.
C9_CutIsShort == ReadCutLast => ret.status = "ErrShortMessage"

\* C9 as amended: ReadMessage of a message short of its last byte returns
\* ErrShortMessage when the message was written without a key and with an empty
\* payload (the byte is missing from an E or S field), an authentication error
\* when the writer had a key, and no error but a payload one byte short
\* when the payload was written in the clear.
C9_CutOutcome ==
  ReadCutLast =>
    IF hs[Other(ret.peer)].ss.hasK THEN ret.status = "ErrAuth"
    ELSE IF ret.payload = Nil THEN ret.status = "ErrShortMessage"
    ELSE ret.status = "nil" /\ ret.out = Take(ret.payload, BLen(ret.payload) - 1)

C9_Witness ==
  /\ ReadCutLast /\ ret.status = "ErrShortMessage"
  /\ ~hs[Other(ret.peer)].ss.hasK /\ ret.payload = Nil

\* The fields of a HandshakeState that C10 names.
Fields(s) == <<s.ss.h, s.ss.ck, s.ss.k, s.ss.n, s.ss.hasK, s.re, s.rs, s.msgIdx, s.shouldWrite>>

\* C10 as claimed: a ReadMessage that returns ErrShortMessage leaves the
\* HandshakeState as it was.
C10_ShortLeavesState ==
  [][\A p \in Peers :
       (CallBy(p) /\ ret'.op = "ReadMessage" /\ ret'.status = "ErrShortMessage")
       => Fields(hs'[p]) = Fields(hs[p])]_vars

\* ... of the message as written but for one altered byte.
ReadAltered == ReadOf /\ ret.msg # ret.sent /\ BLen(ret.msg) = BLen(ret.sent)

\* C11: a handshake message whose payload was written under a cipher key and
\* that reaches ReadMessage with a byte altered, in whatever field, makes
\* ReadMessage return an authentication error, no CipherStates and no payload.
C11_TamperFails ==
  (ReadAltered /\ hs[Other(ret.peer)].ss.hasK) =>
    (ret.status = "ErrAuth" /\ ret.cs = <<>> /\ ret.out = Nil)

\* Message 2 of XX with its first byte (the ephemeral key, sent in the clear) altered.
C11_Witness ==
  /\ ReadAltered /\ hs[Other(ret.peer)].ss.hasK /\ ret.status = "ErrAuth"
  /\ cfg["i"].Pattern.Name = "XX" /\ ret.peer = "i" /\ hs["r"].msgIdx = 2
  /\ ret.msg = Alter(ret.sent, 0)

\* The step is a WriteMessage call by peer p that returned a message.
WroteBy(p) == CallBy(p) /\ ret'.op = "WriteMessage" /\ ret'.status = "ok"

\* A field of a written message: the whole output of the AEAD, or an ephemeral
\* public key as it is.
IsSealed(c) == c[1][1] = "aead" /\ c[2] = 0 /\ c[3] = BLen(c[1][5]) + TagLen
IsClearE(c) == c[1][1] = "pub" /\ c[1][2] \in Ephemerals /\ c[2] = 0 /\ c[3] = DHLen

\* The places in a token list of the tokens that append a field.
FieldTokens(toks) == SelectSeq([j \in 1..Len(toks) |-> j],
                               LAMBDA j : toks[j] \in {MessagePatternE, MessagePatternS})

\* hasK at the moment WriteMessage on s comes to token j of its message.
KeyedAt(s, j) ==
  WriteTokens([hs |-> s, out |-> Nil, panic |-> FALSE],
              SubSeq(CurrentTokens(s), 1, j - 1), "e1").hs.ss.hasK

\* C12 as claimed: a message written by a peer whose hasK was already true
\* consists of AEAD-encrypted fields only.
C12_AllSealed ==
  [][\A p \in Peers :
       (WroteBy(p) /\ hs[p].ss.hasK) =>
         \A k \in 1..Len(ret'.out) : IsSealed(ret'.out[k])]_vars

\* C12 as amended: a static public key appended while hasK is true and a
\* payload appended while hasK is true are AEAD-encrypted; the ephemeral public
\* key of an E token is appended in the clear, also when hasK is true.
C12_KeyedFields ==
  [][\A p \in Peers :
       WroteBy(p) =>
         /\ \A k \in 1..Len(FieldTokens(CurrentTokens(hs[p]))) :
              IF CurrentTokens(hs[p])[FieldTokens(CurrentTokens(hs[p]))[k]] = MessagePatternE
              THEN IsClearE(ret'.out[k])
              ELSE KeyedAt(hs[p], FieldTokens(CurrentTokens(hs[p]))[k]) => IsSealed(ret'.out[k])
         /\ hs'[p].ss.hasK =>
              /\ Len(ret'.out) = Len(FieldTokens(CurrentTokens(hs[p]))) + 1
              /\ IsSealed(ret'.out[Len(ret'.out)])
              /\ ret'.out[Len(ret'.out)][1][5] = ret'.payload]_vars

\* Message 2 of IK: the responder, holding a key since message 1, has written
\* its ephemeral key in the clear and the payload encrypted.
C12_Witness ==
  /\ ret.op = "WriteMessage" /\ ret.status = "ok" /\ ret.peer = "r"
  /\ cfg["r"].Pattern.Name = "IK" /\ Len(ret.out) = 2
  /\ IsClearE(ret.out[1]) /\ IsSealed(ret.out[2])

\* C13: when the peers were constructed with different prologues and every
\* message is delivered as written, a message written before the writer had a
\* key is read without error, a message with a field under a key makes
\* ReadMessage return an authentication error, and the handshake never
\* completes for both peers.
C13_PrologueMismatch ==
  (clean /\ ~Matching) =>
    /\ ReadOf => ret.status = (IF hs[Other(ret.peer)].ss.hasK THEN "ErrAuth" ELSE "nil")
    /\ ~(Completed("i") /\ Completed("r"))

\* NN: message 1 was read without error, message 2 fails at the initiator.
C13_Witness ==
  /\ clean /\ ~Matching /\ ReadOf /\ ret.status = "ErrAuth" /\ ret.peer = "i"
  /\ cfg["i"].Pattern.Name = "NN" /\ cfg["i"].PresharedKey = Nil
  /\ hs["r"].msgIdx = 2 /\ Completed("r") /\ ~Completed("i")

\* C14: between CipherStates that started with the same key and the same n, a
\* Decrypt call returns the plaintext exactly when it is given, with the ad it
\* was encrypted with, the ciphertext whose place among the sender's calls is
\* the place of this call among the receiver's; every other Decrypt on a valid
\* CipherState, one out of order among them, returns an authentication error
\* and nothing else.
C14_InOrder ==
  (tret.op = "Decrypt" /\ tret.status # "panic") =>
    /\ tret.status = "nil" <=>
         /\ tret.from > 0
         /\ SplitOf(chan[tret.from].cs).k = SplitOf(tret.cs).k
         /\ chan[tret.from].seq = tret.seq
         /\ chan[tret.from].ad = tret.ad
    /\ tret.status = "nil" => tret.out = chan[tret.from].plaintext
    /\ tret.status # "nil" => (tret.status = "ErrAuth" /\ tret.out = Nil)

\* The initiator has encrypted two messages with its first CipherState; the
\* responder's first Decrypt, on its own first CipherState, is of the second.
C14_Witness ==
  /\ tn0 = U64Zero /\ Len(chan) = 2 /\ chan[1].cs = "i1" /\ chan[2].cs = "i1"
  /\ chan[2].ad = chan[1].ad
  /\ tret.op = "Decrypt" /\ tret.cs = "r1" /\ tret.seq = 0 /\ tret.from = 2
  /\ tret.ad = chan[2].ad /\ tret.status = "ErrAuth"

\* C15 as claimed: a CipherState that came out of a handshake encrypts a payload
\* of up to MaxMsgLen bytes, and aborts, with n left as it was, when it is given
\* a longer payload to encrypt or the ciphertext of one to decrypt.
C15_LengthChecked ==
  [][\A c \in CSIds :
       (TCallOn(c) /\ ~tcs[c].invalid) =>
         /\ (tret'.op = "Encrypt" /\ BLen(tret'.arg) <= MaxMsgLen) => tret'.status = "nil"
         /\ \/ tret'.op = "Encrypt" /\ BLen(tret'.arg) > MaxMsgLen
            \/ tret'.op = "Decrypt" /\ BLen(tret'.arg) - TagLen > MaxMsgLen
            => (tret'.status = "panic" /\ tcs'[c].n = tcs[c].n)]_vars

\* C16: no WriteMessage and no ReadMessage call changes the Config its
\* HandshakeState was made from, nor the bytes of its key fields, so that
\* NewHandshakeState on the Config gives at any time the state the first
\* session started in.
C16_ConfigKept ==
  [][\A p \in Peers :
       /\ cfg'[p] = cfg[p]
       /\ cfg'[p].PeerEphemeral = ConfigOf(p, cfg[p].Pattern, Nil, Nil).PeerEphemeral
       /\ cfg'[p].PeerStatic = ConfigOf(p, cfg[p].Pattern, Nil, Nil).PeerStatic
       /\ cfg'[p].StaticKeypair = ConfigOf(p, cfg[p].Pattern, Nil, Nil).StaticKeypair
       /\ NewHandshakeState(cfg'[p]) = NewHandshakeState(cfg[p])]_vars

\* The responder has read an ephemeral key into the array of hs.re that held a
\* copy of its Config's PeerEphemeral, and a static key into hs.rs.
C16_Witness ==
  /\ ret.op = "ReadMessage" /\ ret.status = "nil" /\ ret.peer = "r"
  /\ cfg["r"].PeerEphemeral = StaleEphemeral /\ hs["r"].re = Keypair("e1").Public
  /\ cfg["r"].PeerStatic = Nil /\ hs["r"].rs = StaticOf("i").Public /\ ~hs["r"].reShared

\* C17: the CipherStates Split returns start with n = 0 and invalid = false,
\* and a call of Encrypt, Decrypt or Cipher, in whatever order the owners of
\* the CipherStates make them, leaves the key of the CipherState it is made on,
\* every other CipherState and the symmetric states as they were.
C17_Independent ==
  [][/\ \A c \in CSIds : SplitOf(c).n = U64Zero /\ ~SplitOf(c).invalid
     /\ \A c \in CSIds :
          TCallOn(c) =>
            /\ tcs'[c].k = tcs[c].k
            /\ \A d \in CSIds \ {c} : tcs'[d] = tcs[d]
            /\ hs' = hs /\ css' = css]_vars

\* Both CipherStates of the initiator have served calls, the first has been
\* invalidated, the second is as valid as before.
C17_Witness ==
  /\ tcalls["i1"] > 0 /\ tcalls["i2"] > 0 /\ tcs["i1"].invalid /\ ~tcs["i2"].invalid
  /\ tret.cs = "i2" /\ tret.status = "nil"
  /\ tcs["i1"].n = U64Add(tn0, tcalls["i1"]) /\ tcs["i2"].n = U64Add(tn0, tcalls["i2"])

\* The last call was a ReadMessage of a message delivered as written, in a
\* session with consistent configs where every message was.
ReadClean == ReadOf /\ clean /\ Matching /\ ret.msg = ret.sent

\* The tokens of the message peer w wrote last.
WrittenTokens(w) == hs[w].messagePatterns[hs[w].msgIdx]

\* The secret a DH token names between writer w and reader r: the writer's
\* private key of the first letter with the reader's own public key of the second.
Named(w, r, msg) ==
  CASE msg = MessagePatternDHEE -> DH(w.e.Private, r.e.Public)
    [] msg = MessagePatternDHES -> DH(w.e.Private, r.s.Public)
    [] msg = MessagePatternDHSE -> DH(w.s.Private, r.e.Public)
    [] msg = MessagePatternDHSS -> DH(w.s.Private, r.s.Public)

\* C18: for every DH token of a message that was written and read, the writer
\* and the reader hand MixKey the same secret, the one the token names: the
\* reader pairs its own private key of the second letter with the writer's
\* public key of the first.
C18_SameSecret ==
  ReadClean =>
    \A j \in 1..Len(WrittenTokens(Other(ret.peer))) :
      LET msg == WrittenTokens(Other(ret.peer))[j]
      IN msg \in DHTokens =>
           /\ WriterDH(hs[Other(ret.peer)], msg) = ReaderDH(hs[ret.peer], msg)
           /\ WriterDH(hs[Other(ret.peer)], msg) = Named(hs[Other(ret.peer)], hs[ret.peer], msg)
           /\ WriterDH(hs[Other(ret.peer)], msg)[1][1][1] = "dh"

\* Message 2 of XX (e, ee, s, se) read by the initiator.
C18_Witness ==
  /\ ReadClean /\ ret.peer = "i" /\ cfg["i"].Pattern.Name = "XX" /\ hs["i"].msgIdx = 2
  /\ ReaderDH(hs["i"], MessagePatternDHSE) = DH(hs["i"].e.Private, StaticOf("r").Public)
  /\ WriterDH(hs["r"], MessagePatternDHSE) = DH(StaticOf("r").Private, hs["i"].e.Public)

\* C19: a WriteMessage or ReadMessage call returns the two CipherStates, the
\* Split of the symmetric state it leaves, exactly when it is made on the last
\* message of the pattern and succeeds: a call on an earlier message, an
\* aborted call and a ReadMessage that returns an error return none.
C19_SplitOnLast ==
  [][\A p \in Peers :
       CallBy(p) =>
         /\ ret'.cs # <<>> <=>
              /\ hs[p].msgIdx = Len(hs[p].messagePatterns) - 1
              /\ ret'.status \in {"ok", "nil"}
         /\ ret'.cs # <<>> => (Len(ret'.cs) = 2 /\ ret'.cs = Split(hs'[p].ss))]_vars

\* The last message failed authentication in its payload; its reader, past
\* the last message, got no CipherStates, its writer did.
C19_Witness ==
  /\ ret.op = "ReadMessage" /\ ret.status = "ErrAuth" /\ ret.cs = <<>>
  /\ hs[ret.peer].msgIdx = Len(hs[ret.peer].messagePatterns)
  /\ ~Completed(ret.peer) /\ Completed(Other(ret.peer))

\* C20 as claimed: a ReadMessage call that returns an error leaves msgIdx and
\* shouldWrite as they were, and the peer it failed for writes no message
\* until a ReadMessage call of its own has succeeded.
C20_ErrorKeepsTurn ==
  [][\A p \in Peers :
       /\ (CallBy(p) /\ ret'.op = "ReadMessage" /\ ret'.status \in {"ErrShortMessage", "ErrAuth"})
            => (hs'[p].msgIdx = hs[p].msgIdx /\ hs'[p].shouldWrite = hs[p].shouldWrite)
       /\ (ret.peer = p /\ ret.op = "ReadMessage" /\ ret.status \in {"ErrShortMessage", "ErrAuth"})
            => ~WroteBy(p)]_vars

====
